---- MODULE Spec2Model ----
(***************************************************************************)
(* Footpath Explorer: the view state of src/src/App.js (segments,          *)
(* selectedSegmentId, loading, errorMessage), the handlers that change it  *)
(* (searchSegments, clearSegments, closeErrorMessage, the feature click    *)
(* handler, the popup's onClose) and the two pure steps of searchSegments  *)
(* (longitude normalisation of the bounding box, mapping of the Overpass   *)
(* response to GeoJSON features).                                          *)
(*                                                                         *)
(* Handlers are gated by what the render function shows: a button click is *)
(* taken only while the button is not disabled, a feature click only on a  *)
(* feature of the rendered GeoJSON layer, and so on.  The awaited          *)
(* axios.get of a searchSegments invocation is an entry of `pending`; it   *)
(* settles by FetchSuccess or FetchFailure.                                *)
(***************************************************************************)
EXTENDS Integers, Sequences, FiniteSets, TLC

VARIABLES segments, selectedSegmentId, loading, errorMessage, pending, last

vars == <<segments, selectedSegmentId, loading, errorMessage, pending, last>>

(***************************************************************************)
(* Bounds of the explored inputs.                                          *)
(***************************************************************************)
MaxElems == 2       \* elements in one Overpass response
MaxPts == 2         \* points in one element's geometry
MaxId == 2          \* element ids are 1..MaxId
MaxLonSteps == 3    \* view longitudes are 190 * (-MaxLonSteps..MaxLonSteps)

(***************************************************************************)
(* Values of the program.                                                  *)
(***************************************************************************)
\* JS null of useState(null); OSM element ids are positive, so 0 is free.
null == 0

TIMEOUT_MSG == "Query timed out. Try reducing the search area."

GENERIC_MSG == "An error occurred while fetching the data."

ErrorCodes == {"ECONNABORTED", "ERR_NETWORK"}

(***************************************************************************)
(* Input domains.                                                          *)
(***************************************************************************)
\* Unwrapped longitudes as Leaflet's map.getBounds() reports them: the view
\* may have been panned several worlds west or east of [-180, 180].
Lons == { 190 * k : k \in (0 - MaxLonSteps)..MaxLonSteps }

\* getBounds() of a view: south < north and west < east.
BoundingBoxes ==
    { b \in [south : {-45}, west : Lons, north : {45}, east : Lons] : b.west < b.east }

\* The k-th point of a way; no two coordinates of a way coincide.
Point(k) == [lon |-> 2 * k - 1, lat |-> 2 * k]

TagMaps == { [highway |-> "footway"], [highway |-> "pedestrian"] }

RECURSIVE SeqsUpTo(_, _)
SeqsUpTo(S, n) ==
    IF n = 0 THEN { <<>> }
    ELSE LET shorter == SeqsUpTo(S, n - 1)
         IN  shorter \cup { Append(s, x) : s \in { t \in shorter : Len(t) = n - 1 }, x \in S }

\* `out geom` gives every way its points in order; a way has at least one.
Geometries == { [ k \in 1..n |-> Point(k) ] : n \in 1..MaxPts }

RawElements == [id : 1..MaxId, tags : TagMaps, geometry : Geometries]

Responses == SeqsUpTo(RawElements, MaxElems)

(***************************************************************************)
(* Pure steps of searchSegments.                                           *)
(***************************************************************************)
normalizeLon(lon) == IF lon < -180 THEN lon + 360 ELSE lon

\* The four numbers embedded in [bbox:south, west, north, east].
buildBbox(bounds) ==
    << bounds.south, normalizeLon(bounds.west), bounds.north, normalizeLon(bounds.east) >>

\* Variant: the pair built as [lat, lon].
mapPoint_LatLon(point) == << point.lat, point.lon >>

mapPoint(point) == << point.lon, point.lat >>

mapGeometry(geometry) == [ i \in 1..Len(geometry) |-> mapPoint(geometry[i]) ]

mapElement(el) ==
    [ type |-> "Feature",
      geometry |-> [ type |-> "LineString", coordinates |-> mapGeometry(el.geometry) ],
      properties |-> el.tags,
      id |-> el.id ]

mapResponse(elements) == [ i \in 1..Len(elements) |-> mapElement(elements[i]) ]

RemoveAt(s, i) == [ j \in 1..(Len(s) - 1) |-> IF j < i THEN s[j] ELSE s[j + 1] ]

(***************************************************************************)
(* What the render function enables.                                       *)
(***************************************************************************)
\* Variant: Search stays enabled while a request is outstanding.
SearchDisabled_IgnoresLoading == Len(segments) > 0

\* Variant: Search stays enabled while results are shown.
SearchDisabled_IgnoresSegments == loading

SearchDisabled == Len(segments) > 0 \/ loading

ClearDisabled == Len(segments) = 0 \/ loading

GeoJSONRendered == Len(segments) > 0

PopupRendered == selectedSegmentId # null

ErrorBannerRendered == errorMessage # ""

\* segments.find((segment) => segment.id === selectedSegmentId) finds one
FindSelected == \E i \in 1..Len(segments) : segments[i].id = selectedSegmentId

(***************************************************************************)
(* State after construction.                                               *)
(***************************************************************************)
Init ==
    /\ segments = <<>>
    /\ selectedSegmentId = null
    /\ loading = FALSE
    /\ errorMessage = ""
    /\ pending = <<>>
    /\ last = [op |-> "init", id |-> null, sel |-> null, data |-> <<>>]

(***************************************************************************)
(* Handlers.  `last` records the handler that ran, the feature id it was   *)
(* given, the selection it found and the response.data.elements it got.    *)
(***************************************************************************)
\* Variant: the previous error message survives the start of a search.
Search_KeepsError(bounds) ==
    /\ ~SearchDisabled
    /\ loading' = TRUE
    /\ pending' = Append(pending, [bounds |-> bounds, bbox |-> buildBbox(bounds)])
    /\ last' = [op |-> "search", id |-> null, sel |-> selectedSegmentId, data |-> <<>>]
    /\ UNCHANGED <<segments, selectedSegmentId, errorMessage>>

\* "Search This Area": handleAction -> searchSegments up to the await.
Search(bounds) ==
    /\ ~SearchDisabled
    /\ loading' = TRUE
    /\ errorMessage' = ""
    /\ pending' = Append(pending, [bounds |-> bounds, bbox |-> buildBbox(bounds)])
    /\ last' = [op |-> "search", id |-> null, sel |-> selectedSegmentId, data |-> <<>>]
    /\ UNCHANGED <<segments, selectedSegmentId>>

\* The awaited request i resolves: try-body after the await, then finally.
FetchSuccess(i, elements) ==
    /\ i \in 1..Len(pending)
    /\ segments' = mapResponse(elements)
    /\ loading' = FALSE
    /\ pending' = RemoveAt(pending, i)
    /\ last' = [op |-> "success", id |-> null, sel |-> selectedSegmentId, data |-> elements]
    /\ UNCHANGED <<selectedSegmentId, errorMessage>>

\* Variant: the two messages exchanged.
FetchFailure_SwappedMessages(i, code) ==
    /\ i \in 1..Len(pending)
    /\ errorMessage' = IF code = "ECONNABORTED" THEN GENERIC_MSG ELSE TIMEOUT_MSG
    /\ loading' = FALSE
    /\ pending' = RemoveAt(pending, i)
    /\ last' = [op |-> IF code = "ECONNABORTED" THEN "timeout" ELSE "error",
                id |-> null, sel |-> selectedSegmentId, data |-> <<>>]
    /\ UNCHANGED <<segments, selectedSegmentId>>

\* Variant: no finally block, the loader is left on after a failure.
FetchFailure_KeepsLoading(i, code) ==
    /\ i \in 1..Len(pending)
    /\ errorMessage' = IF code = "ECONNABORTED" THEN TIMEOUT_MSG ELSE GENERIC_MSG
    /\ pending' = RemoveAt(pending, i)
    /\ last' = [op |-> IF code = "ECONNABORTED" THEN "timeout" ELSE "error",
                id |-> null, sel |-> selectedSegmentId, data |-> <<>>]
    /\ UNCHANGED <<segments, selectedSegmentId, loading>>

\* The awaited request i rejects: catch, then finally.
FetchFailure(i, code) ==
    /\ i \in 1..Len(pending)
    /\ errorMessage' = IF code = "ECONNABORTED" THEN TIMEOUT_MSG ELSE GENERIC_MSG
    /\ loading' = FALSE
    /\ pending' = RemoveAt(pending, i)
    /\ last' = [op |-> IF code = "ECONNABORTED" THEN "timeout" ELSE "error",
                id |-> null, sel |-> selectedSegmentId, data |-> <<>>]
    /\ UNCHANGED <<segments, selectedSegmentId>>

\* Variant: the selection survives Clear.
clearSegments_KeepsSelection ==
    /\ ~ClearDisabled
    /\ segments' = <<>>
    /\ errorMessage' = ""
    /\ last' = [op |-> "clear", id |-> null, sel |-> selectedSegmentId, data |-> <<>>]
    /\ UNCHANGED <<selectedSegmentId, loading, pending>>

\* Variant: Clear resets the selection and the message only.
clearSegments_KeepsSegments ==
    /\ ~ClearDisabled
    /\ selectedSegmentId' = null
    /\ errorMessage' = ""
    /\ last' = [op |-> "clear", id |-> null, sel |-> selectedSegmentId, data |-> <<>>]
    /\ UNCHANGED <<segments, loading, pending>>

\* "Clear Segments"
clearSegments ==
    /\ ~ClearDisabled
    /\ segments' = <<>>
    /\ selectedSegmentId' = null
    /\ errorMessage' = ""
    /\ last' = [op |-> "clear", id |-> null, sel |-> selectedSegmentId, data |-> <<>>]
    /\ UNCHANGED <<loading, pending>>

\* The error banner's close button
closeErrorMessage ==
    /\ ErrorBannerRendered
    /\ errorMessage' = ""
    /\ last' = [op |-> "dismiss", id |-> null, sel |-> selectedSegmentId, data |-> <<>>]
    /\ UNCHANGED <<segments, selectedSegmentId, loading, pending>>

\* Variant: a click always selects.
toggleSelect_AlwaysSelects(selected, id) == id

\* The click handler of a feature layer
toggleSelect(selected, id) == IF selected = id THEN null ELSE id

ClickFeature(i) ==
    /\ GeoJSONRendered
    /\ i \in 1..Len(segments)
    /\ selectedSegmentId' = toggleSelect(selectedSegmentId, segments[i].id)
    /\ last' = [op |-> "click", id |-> segments[i].id, sel |-> selectedSegmentId,
                data |-> <<>>]
    /\ UNCHANGED <<segments, loading, errorMessage, pending>>

\* The popup's onClose
PopupClose ==
    /\ PopupRendered
    /\ selectedSegmentId' = null
    /\ last' = [op |-> "popupClose", id |-> null, sel |-> selectedSegmentId, data |-> <<>>]
    /\ UNCHANGED <<segments, loading, errorMessage, pending>>

\* The 15 s timer of axios.get(url, { timeout: 15000 }) rejecting request i.
Timeout == \E i \in 1..Len(pending) : FetchFailure(i, "ECONNABORTED")

Next ==
    \/ \E bounds \in BoundingBoxes : Search(bounds)
    \/ \E i \in 1..Len(pending), elements \in Responses : FetchSuccess(i, elements)
    \/ \E i \in 1..Len(pending), code \in ErrorCodes : FetchFailure(i, code)
    \/ clearSegments
    \/ closeErrorMessage
    \/ \E i \in 1..Len(segments) : ClickFeature(i)
    \/ PopupClose

Spec == Init /\ [][Next]_vars

\* A request that has not settled otherwise is aborted with ECONNABORTED once
\* its timer expires: an outstanding request does not stay outstanding forever.
FairSpec == Spec /\ WF_vars(Timeout)

(***************************************************************************)
(* Steps, as seen from the state before and after.                         *)
(***************************************************************************)
SearchStarted == Len(pending') = Len(pending) + 1

SearchCompleted == Len(pending') = Len(pending) - 1

SearchFailed == SearchCompleted /\ last'.op \in {"timeout", "error"}

SearchSucceeded == SearchCompleted /\ last'.op = "success"

Cleared == last'.op = "clear" /\ vars' # vars

SecondClickOnSame ==
    /\ last.op = "click"
    /\ last'.op = "click"
    /\ last'.id = last.id
    /\ vars' # vars

(***************************************************************************)
(* C1: in every state reachable through the UI, the selected identifier is *)
(* unset or is the id of a feature of the current feature list, so the     *)
(* popup's find() of the selected feature finds one.                       *)
(***************************************************************************)
C1_SelectedInFeatures == selectedSegmentId = null \/ FindSelected

C1_Witness == selectedSegmentId # null /\ FindSelected /\ Len(segments) = 2

(***************************************************************************)
(* C2: at most one fetch is in flight; a search starts only while loading  *)
(* is false and the feature list is empty; loading is true exactly while   *)
(* a search is outstanding.                                                *)
(***************************************************************************)
C2_AtMostOneFetch ==
    /\ [](Len(pending) <= 1 /\ (loading <=> Len(pending) = 1))
    /\ [][SearchStarted => (~loading /\ segments = <<>> /\ pending = <<>>)]_vars

C2_Witness == Len(pending) = 1 /\ loading /\ last.op = "search"

(***************************************************************************)
(* C3: a failed search sets errorMessage to the timeout text when the      *)
(* failure is the client-side timeout and to the generic text otherwise,   *)
(* leaves the feature list and the selected identifier unchanged and sets  *)
(* loading to false.                                                       *)
(***************************************************************************)
C3_FailureEffect ==
    [][SearchFailed =>
        /\ errorMessage' = IF last'.op = "timeout"
                            THEN "Query timed out. Try reducing the search area."
                            ELSE "An error occurred while fetching the data."
        /\ segments' = segments
        /\ selectedSegmentId' = selectedSegmentId
        /\ loading' = FALSE]_vars

C3_Witness ==
    /\ last.op = "timeout"
    /\ errorMessage = "Query timed out. Try reducing the search area."
    /\ ~loading

(***************************************************************************)
(* C4: after a successful search the feature list is the mapped response   *)
(* (one feature per element), no feature is selected, errorMessage is      *)
(* empty and loading is false.                                             *)
(***************************************************************************)
C4_SuccessEffect ==
    [][SearchSucceeded =>
        /\ segments' = mapResponse(last'.data)
        /\ selectedSegmentId' = null
        /\ errorMessage' = ""
        /\ loading' = FALSE]_vars

C4_Witness == last.op = "success" /\ Len(segments) = 2 /\ ~loading /\ errorMessage = ""

(***************************************************************************)
(* C5 (as stated): whatever was selected before, clicking feature X twice  *)
(* in succession restores the selection held before the two clicks.        *)
(***************************************************************************)
C5_DoubleClickRestores == [][SecondClickOnSame => selectedSegmentId' = last.sel]_vars

(***************************************************************************)
(* C5 (amended): clicking X twice in succession restores the selection     *)
(* held before the two clicks when that selection was unset or X; when a   *)
(* different feature was selected, the two clicks leave nothing selected.  *)
(***************************************************************************)
C5_DoubleClickAmended ==
    [][SecondClickOnSame =>
        selectedSegmentId' = IF last.sel \in {null, last.id} THEN last.sel ELSE null]_vars

C5_Witness == last.op = "click" /\ last.sel = last.id /\ selectedSegmentId = null

C7_LongitudesNormalized ==
    \A i \in 1..Len(pending) :
        LET b == pending[i].bounds
            q == pending[i].bbox
        IN  (b.west < -180 \/ b.east < -180) =>
                /\ (b.west < -180 => q[2] = b.west + 360)
                /\ (b.east < -180 => q[4] = b.east + 360)
                /\ q[2] >= -180 /\ q[2] <= 180
                /\ q[4] >= -180 /\ q[4] <= 180

(***************************************************************************)
(* C8: a successful response with N elements yields exactly N features in  *)
(* response order; feature i has the id and tags of element i, and its     *)
(* coordinates are element i's points as [lon, lat] pairs in their order.  *)
(***************************************************************************)
FeatureOf(f, el) ==
    /\ f.id = el.id
    /\ f.properties = el.tags
    /\ Len(f.geometry.coordinates) = Len(el.geometry)
    /\ \A k \in 1..Len(el.geometry) :
          /\ Len(f.geometry.coordinates[k]) = 2
          /\ f.geometry.coordinates[k][1] = el.geometry[k].lon
          /\ f.geometry.coordinates[k][2] = el.geometry[k].lat

C8_MappingPreserves ==
    last.op = "success" =>
        /\ Len(segments) = Len(last.data)
        /\ \A n \in 1..Len(last.data) : FeatureOf(segments[n], last.data[n])

C8_Witness ==
    /\ last.op = "success"
    /\ Len(last.data) = 2
    /\ Len(segments) = 2
    /\ segments[1].id # segments[2].id
    /\ Len(segments[1].geometry.coordinates) = 2
    /\ segments[1].geometry.coordinates[1] # segments[1].geometry.coordinates[2]

(***************************************************************************)
(* C9: a search invocation first sets loading and clears errorMessage; it  *)
(* is then completed exactly once, by a step that sets loading to false;   *)
(* no completion happens without an outstanding start; and, the request    *)
(* settling eventually, loading eventually returns to false.               *)
(***************************************************************************)
C9_StartThenOneCompletion ==
    /\ [][SearchStarted => (loading' /\ errorMessage' = "")]_vars
    /\ [][SearchCompleted => (loading /\ Len(pending) = 1 /\ pending' = <<>> /\ ~loading')]_vars
    /\ [][(loading /\ ~loading') => SearchCompleted]_vars
    /\ (loading ~> ~loading)

C9_Witness == last.op \in {"success", "timeout", "error"} /\ ~loading /\ pending = <<>>

(***************************************************************************)
(* C10: loading implies an empty feature list and no selection; so a       *)
(* failed search has no prior results, and after a failure Search is       *)
(* enabled and Clear disabled.                                             *)
(***************************************************************************)
C10_LoadingMeansEmpty ==
    /\ [](loading => (segments = <<>> /\ selectedSegmentId = null))
    /\ [][SearchFailed => (segments = <<>> /\ ~SearchDisabled' /\ ClearDisabled')]_vars

C10_Witness == last.op = "error" /\ ~SearchDisabled /\ ClearDisabled /\ errorMessage # ""

====
